---- MODULE Spec2Model ----
(***************************************************************************)
(* Model of examples/assistant/assistant.cpp: the wake-word / silence      *)
(* driven polling loop of main() and the reply extraction of call_ollama().*)
(*                                                                         *)
(* Text is a sequence of one-character strings, so that std::string::find, *)
(* substr and += are computed, not assumed.  One action is one pass of the *)
(* while (is_running) loop body (lines 197-269).  The variables cycle, out *)
(* and calls record what the last pass read, printed and called.           *)
(***************************************************************************)
EXTENDS Integers, Sequences, FiniteSets, TLC

VARIABLES
    pc,                \* "start" | "loop" | "exited" | "crashed"
    exit_code,         \* return value of main, -1 while running
    ctx,               \* "none" | "valid" | "null": whisper_context * (line 188)
    is_running,        \* line 196
    is_active,         \* params.is_active          (line 109)
    current_segment,   \* params.current_segment    (line 111)
    last_speech_time,  \* params.last_speech_time   (line 112)
    clock,             \* last value read from system_clock::now(), in ms
    cycle,             \* inputs of the last pass
    out,               \* what the last pass printed
    calls,             \* external calls made by the last pass, in order
    session_segs,      \* history: segments transcribed after the activating one
    acts,              \* history: activations printed since the last finalize
    speech_seen,       \* history: some pass had a speech verdict
    turns,             \* history: utterances finalized so far
    quiet              \* environment: from now on silence only, the clock
                       \* advancing, no shutdown request

vars == <<pc, exit_code, ctx, is_running, is_active, current_segment,
          last_speech_time, clock, cycle, out, calls, session_segs, acts,
          speech_seen, turns, quiet>>

----------------------------------------------------------------------------
(* Bounds of the model *)

Time0 == 5000            \* clock value when the loop is entered (epoch ms)
MaxElapsed == 2002       \* the clock is followed up to Time0 + MaxElapsed
MaxUtterance == 6        \* characters accumulated in current_segment
MaxSessionSegs == 2      \* segments transcribed in one armed session

(* Program constants *)

silence_threshold_ms == 1000
wake_word == <<"t", "e", "s", "t">>

(* std::string::npos is SIZE_MAX; size_t values are kept in two's complement, *)
(* so npos is -1 and npos + 11 wraps to 10 as it does modulo 2^64.            *)
npos == 0 - 1

----------------------------------------------------------------------------
(* std::string operations *)

MatchAt(s, w, pos) == \A k \in 1..Len(w) : s[pos + k] = w[k]

RECURSIVE FindFrom(_, _, _)
FindFrom(s, w, pos) ==
    IF pos < 0 \/ pos + Len(w) > Len(s) THEN npos
    ELSE IF MatchAt(s, w, pos) THEN pos
    ELSE FindFrom(s, w, pos + 1)

Find(s, w) == FindFrom(s, w, 0)

Substr(s, pos, n) ==
    LET last == IF pos + n > Len(s) THEN Len(s) ELSE pos + n
    IN  SubSeq(s, pos + 1, last)

\* Variant: the wake phrase is looked for at the start of the text only.
contains_wake_word_prefix(text, w) == Find(text, w) = 0

contains_wake_word(text, w) == Find(text, w) # npos

----------------------------------------------------------------------------
(* call_ollama: reply extraction from the newline-delimited body *)

Q == "\""
NL == "\n"

\* "\"response\":" (line 84) and "\"response\":\"" (line 85)
RESPONSE_KEY == <<Q, "r", "e", "s", "p", "o", "n", "s", "e", Q, ":">>
RESPONSE_OPEN == RESPONSE_KEY \o <<Q>>

\* std::getline over response.data: the text up to each '\n', a last
\* unterminated line included, nothing after a final '\n'.
RECURSIVE GetLines(_)
GetLines(data) ==
    IF data = <<>> THEN <<>>
    ELSE LET nl == Find(data, <<NL>>)
         IN  IF nl = npos THEN <<data>>
             ELSE <<SubSeq(data, 1, nl)>> \o GetLines(SubSeq(data, nl + 2, Len(data)))

\* Offset added to the position of "\"response\":\"" on line 85.
ValueOffset == 11

\* Lines 84-90: what one line adds to result.
ExtractLine(line) ==
    IF Find(line, RESPONSE_KEY) # npos
    THEN LET start == Find(line, RESPONSE_OPEN) + ValueOffset
             end   == FindFrom(line, <<Q>>, start)
         IN  IF start # npos /\ end # npos
             THEN Substr(line, start, end - start)
             ELSE <<>>
    ELSE <<>>

RECURSIVE ParseLines(_, _)
ParseLines(lines, result) ==
    IF lines = <<>> THEN result
    ELSE ParseLines(Tail(lines), result \o ExtractLine(Head(lines)))

\* Lines 58-101.  curl: "no_handle" (curl_easy_init returned NULL),
\* "failed" (curl_easy_perform # CURLE_OK) or "ok"; data is response.data.
call_ollama(curl, data) ==
    IF curl = "ok" THEN ParseLines(GetLines(data), <<>>) ELSE <<>>

(* The completion service: a body is a sequence of JSON lines, each of     *)
(* which may carry a "response" string fragment.                           *)

Fragment(val)  == [kind |-> "fragment", val |-> val]   \* {"response":"<val>"}
Full(val)      == [kind |-> "full", val |-> val]       \* {"m":1,"response":"<val>"}
Absent         == [kind |-> "absent", val |-> <<>>]    \* {"done":true}
Malformed      == [kind |-> "malformed", val |-> <<>>] \* {"d":0,"response":null}

Render(l) ==
    CASE l.kind = "fragment"  -> <<"{">> \o RESPONSE_OPEN \o l.val \o <<Q, "}">>
      [] l.kind = "full"      -> <<"{", Q, "m", Q, ":", "1", ",">> \o RESPONSE_OPEN
                                     \o l.val \o <<Q, "}">>
      [] l.kind = "absent"    -> <<"{", Q, "d", "o", "n", "e", Q, ":",
                                   "t", "r", "u", "e", "}">>
      [] l.kind = "malformed" -> <<"{", Q, "d", Q, ":", "0", ",">> \o RESPONSE_KEY
                                     \o <<"n", "u", "l", "l", "}">>

RECURSIVE RenderBody(_)
RenderBody(body) ==
    IF body = <<>> THEN <<>>
    ELSE Render(Head(body)) \o <<NL>> \o RenderBody(Tail(body))

\* Bodies the service is taken to answer with (response.data, line 80).
Bodies == { <<>>,
            <<Fragment(<<"a", "b">>)>>,
            <<Fragment(<<"a", "b">>), Fragment(<<"c", "d">>)>>,
            <<Full(<<"c", "d">>)>>,
            <<Absent>>,
            <<Malformed>>,
            <<Absent, Fragment(<<"a", "b">>)>>,
            <<Fragment(<<"a", "b">>), Malformed, Fragment(<<"c", "d">>)>> }

----------------------------------------------------------------------------
(* Inputs of one pass of the loop *)

\* Advances of system_clock between two reads (lines 205 and 244); the clock
\* is taken not to run backwards.
Ticks == {0, silence_threshold_ms - 1, silence_threshold_ms, silence_threshold_ms + 1}

\* Texts whisper_full_get_segment_text returns (line 226).
T_empty == <<>>
T_a     == <<"a">>
T_tes   == <<"t", "e", "s">>
T_wake  == <<"t", "e", "s", "t">>
T_mid   == <<"a", "t", "e", "s", "t", "b">>
T_caps  == <<"T", "e", "s", "t">>

\* Transcripts of one window: the segments of one successful whisper_full,
\* in transcription order (lines 224-226).
Transcripts == { <<>>,
                 <<T_empty>>, <<T_a>>, <<T_tes>>, <<T_wake>>, <<T_mid>>, <<T_caps>>,
                 <<T_empty, T_wake>>, <<T_a, T_wake>>, <<T_wake, T_a>>,
                 <<T_wake, T_wake>>, <<T_a, T_tes>>, <<T_tes, T_a>>,
                 <<T_a, T_wake, T_tes>> }

\* What a failed whisper_full may leave behind in ctx (never read, line 220).
StaleTranscripts == {<<>>, <<T_wake>>, <<T_a>>}

CurlOutcomes == {"ok", "failed", "no_handle"}

----------------------------------------------------------------------------
(* Events printed and external calls made *)

Event(ev, text) == [ev |-> ev, text |-> text]
Activated       == Event("Activated", <<>>)     \* line 232
PartialText(t)  == Event("PartialText", t)     \* line 238
Finalize(t)     == Event("Finalize", t)        \* line 251
Reply(t)        == Event("Reply", t)           \* line 255
Waiting         == Event("Waiting", <<>>)       \* line 262
Failed          == Event("Failed", <<>>)        \* line 219

Call(fn, arg) == [fn |-> fn, arg |-> arg]
AudioGet      == Call("audio.get", <<>>)        \* line 199
VadSimple     == Call("vad_simple", <<>>)       \* line 202
WhisperFull   == Call("whisper_full", <<>>)     \* line 218
CallOllama(p) == Call("call_ollama", p)        \* line 254
PollEvents    == Call("sdl_poll_events", <<>>)  \* line 268

----------------------------------------------------------------------------
(* The body of the loop *)

\* The session fields the loop body reads and writes, and what it prints.
\* A pass starts with audio.get and vad_simple (lines 199-203).
Session(active, segment) ==
    [is_active |-> active, current_segment |-> segment,
     out |-> <<>>, calls |-> <<AudioGet, VadSimple>>]

\* Variant: the wake phrase is checked before is_active is.
SegmentStep_Retrigger(st, text) ==
    IF contains_wake_word(text, wake_word)
    THEN [st EXCEPT !.is_active = TRUE, !.out = Append(@, Activated)]
    ELSE IF st.is_active
         THEN [st EXCEPT !.current_segment = @ \o text,
                         !.out = Append(@, PartialText(text))]
         ELSE st

\* Variant: the text is put in front of current_segment.
SegmentStep_Prepend(st, text) ==
    IF ~st.is_active
    THEN IF contains_wake_word(text, wake_word)
         THEN [st EXCEPT !.is_active = TRUE, !.out = Append(@, Activated)]
         ELSE st
    ELSE [st EXCEPT !.current_segment = text \o @,
                    !.out = Append(@, PartialText(text))]

\* Variant: an utterance longer than three characters is finalized at once.
SegmentStep_Cutoff(st, text) ==
    IF ~st.is_active
    THEN IF contains_wake_word(text, wake_word)
         THEN [st EXCEPT !.is_active = TRUE, !.out = Append(@, Activated)]
         ELSE st
    ELSE IF Len(st.current_segment \o text) > 3
         THEN [st EXCEPT !.is_active = FALSE, !.current_segment = <<>>,
                         !.out = @ \o <<PartialText(text),
                                        Finalize(st.current_segment \o text)>>]
         ELSE [st EXCEPT !.current_segment = @ \o text,
                         !.out = Append(@, PartialText(text))]

\* Variant: is_active is tested again after the wake-word test instead of in
\* its else branch, so the activating segment is appended too.
SegmentStep_KeepTrigger(st, text) ==
    LET woken == IF ~st.is_active /\ contains_wake_word(text, wake_word)
                 THEN [st EXCEPT !.is_active = TRUE, !.out = Append(@, Activated)]
                 ELSE st
    IN  IF woken.is_active
        THEN [woken EXCEPT !.current_segment = @ \o text,
                           !.out = Append(@, PartialText(text))]
        ELSE woken

\* Variant: text is accumulated before activation as well.
SegmentStep_AccumulateDormant(st, text) ==
    IF ~st.is_active /\ contains_wake_word(text, wake_word)
    THEN [st EXCEPT !.is_active = TRUE, !.out = Append(@, Activated)]
    ELSE [st EXCEPT !.current_segment = @ \o text,
                    !.out = Append(@, PartialText(text))]

\* Lines 226-240: one iteration of the segment loop.
SegmentStep(st, text) ==
    IF ~st.is_active
    THEN IF contains_wake_word(text, wake_word)
         THEN [st EXCEPT !.is_active = TRUE, !.out = Append(@, Activated)]
         ELSE st
    ELSE [st EXCEPT !.current_segment = @ \o text,
                    !.out = Append(@, PartialText(text))]

\* Variant: break instead of continue on line 233.
RECURSIVE SegmentLoop_BreakOnWake(_, _, _)
SegmentLoop_BreakOnWake(st, segs, i) ==
    IF i > Len(segs) THEN st
    ELSE LET nx == SegmentStep(st, segs[i])
         IN  IF ~st.is_active /\ nx.is_active THEN nx
             ELSE SegmentLoop_BreakOnWake(nx, segs, i + 1)

\* Lines 224-241: for (i = 0; i < n_segments; ++i).
RECURSIVE SegmentLoop(_, _, _)
SegmentLoop(st, segs, i) ==
    IF i > Len(segs) THEN st
    ELSE SegmentLoop(SegmentStep(st, segs[i]), segs, i + 1)

\* Variant: no continue on line 220, the segments left in ctx are read.
Transcribe_IgnoreRc(st, rc, segs) ==
    LET called == [st EXCEPT !.calls = Append(@, WhisperFull)]
    IN  SegmentLoop(IF rc # 0 THEN [called EXCEPT !.out = Append(@, Failed)] ELSE called,
                    segs, 1)

\* Lines 218-241: whisper_full's return code decides whether the segments
\* are read at all.
Transcribe(st, rc, segs) ==
    LET called == [st EXCEPT !.calls = Append(@, WhisperFull)]
    IN  IF rc # 0 THEN [called EXCEPT !.out = Append(@, Failed)]
        ELSE SegmentLoop(called, segs, 1)

\* Variant: only an armed session is stamped.
SpeechStamp_OnlyArmed(active, last, now) == IF active THEN now ELSE last

\* Variant: only the first speech verdict is stamped.
SpeechStamp_KeepFirst(active, last, now) == IF last = 0 THEN now ELSE last

\* Lines 205-206: a speech verdict stamps last_speech_time.
SpeechStamp(active, last, now) == now

\* Variant: the emptiness test of line 249 is missing.
ShouldFinalize_IgnoreEmpty(active, segment, last, now) ==
    /\ active
    /\ (now - last) > silence_threshold_ms

\* Variant: >= on line 248.
ShouldFinalize_AtThreshold(active, segment, last, now) ==
    /\ active
    /\ (now - last) >= silence_threshold_ms
    /\ segment # <<>>

\* Variant: the operands of the subtraction on line 248 are swapped.
ShouldFinalize_Swapped(active, segment, last, now) ==
    /\ active
    /\ (last - now) > silence_threshold_ms
    /\ segment # <<>>

\* Lines 247-249.
ShouldFinalize(active, segment, last, now) ==
    /\ active
    /\ (now - last) > silence_threshold_ms
    /\ segment # <<>>

\* Variant: line 259 is missing.
FinalizeAndDispatch_NoClear(st, curl, data) ==
    LET response == call_ollama(curl, data)
    IN  [is_active |-> FALSE,
         current_segment |-> st.current_segment,
         out |-> st.out \o <<Finalize(st.current_segment), Reply(response), Waiting>>,
         calls |-> Append(st.calls, CallOllama(st.current_segment))]

\* Variant: the session is reset only when a reply came back.
FinalizeAndDispatch_KeepOnFailure(st, curl, data) ==
    LET response == call_ollama(curl, data)
    IN  [is_active |-> (response = <<>>) /\ st.is_active,
         current_segment |-> IF response = <<>> THEN st.current_segment ELSE <<>>,
         out |-> st.out \o <<Finalize(st.current_segment), Reply(response)>>,
         calls |-> Append(st.calls, CallOllama(st.current_segment))]

\* Variant: line 260 is missing.
FinalizeAndDispatch_StayArmed(st, curl, data) ==
    LET response == call_ollama(curl, data)
    IN  [is_active |-> st.is_active,
         current_segment |-> <<>>,
         out |-> st.out \o <<Finalize(st.current_segment), Reply(response), Waiting>>,
         calls |-> Append(st.calls, CallOllama(st.current_segment))]

\* Variant: an empty reply is asked for once more.
FinalizeAndDispatch_Retry(st, curl, data) ==
    LET response == call_ollama(curl, data)
        again    == IF response = <<>> THEN <<CallOllama(st.current_segment)>> ELSE <<>>
    IN  [is_active |-> FALSE,
         current_segment |-> <<>>,
         out |-> st.out \o <<Finalize(st.current_segment), Reply(response), Waiting>>,
         calls |-> st.calls \o <<CallOllama(st.current_segment)>> \o again]

\* Lines 251-263: print, dispatch, print the reply, reset.
FinalizeAndDispatch(st, curl, data) ==
    LET response == call_ollama(curl, data)
    IN  [is_active |-> FALSE,
         current_segment |-> <<>>,
         out |-> st.out \o <<Finalize(st.current_segment), Reply(response), Waiting>>,
         calls |-> Append(st.calls, CallOllama(st.current_segment))]

\* Lines 242-265: the silence branch.
SilenceBranch(st, last, now, curl, data) ==
    IF ShouldFinalize(st.is_active, st.current_segment, last, now)
    THEN FinalizeAndDispatch(st, curl, data)
    ELSE st

----------------------------------------------------------------------------
(* History of the armed session, kept apart from the code's own fields *)

\* w occurs in s as a block of consecutive characters.
IsSubstring(w, s) ==
    \E i \in 0..Len(s) : \E j \in i..Len(s) : SubSeq(s, i + 1, j) = w

\* Index of the first segment holding the wake phrase, 0 when there is none.
FirstMatch(segs) ==
    IF \E i \in 1..Len(segs) : IsSubstring(wake_word, segs[i])
    THEN CHOOSE i \in 1..Len(segs) :
             /\ IsSubstring(wake_word, segs[i])
             /\ \A k \in 1..(i - 1) : ~IsSubstring(wake_word, segs[k])
    ELSE 0

\* The segments of a pass that arrive in an armed session.
Heard(active, segs) ==
    IF active THEN segs
    ELSE IF FirstMatch(segs) = 0 THEN <<>>
    ELSE SubSeq(segs, FirstMatch(segs) + 1, Len(segs))

RECURSIVE Flatten(_)
Flatten(segs) == IF segs = <<>> THEN <<>> ELSE Head(segs) \o Flatten(Tail(segs))

Count(events, ev) == Cardinality({i \in 1..Len(events) : events[i].ev = ev})

----------------------------------------------------------------------------
(* State machine *)

NoCycle ==
    [kind |-> "none", segs |-> <<>>, now |-> 0, curl |-> "none", body |-> <<>>]

Init ==
    /\ pc = "start"
    /\ exit_code = 0 - 1
    /\ ctx = "none"
    /\ is_running = FALSE
    /\ is_active = FALSE
    /\ current_segment = <<>>
    /\ last_speech_time = 0
    /\ clock = Time0
    /\ cycle = NoCycle
    /\ out = <<>>
    /\ calls = <<>>
    /\ session_segs = <<>>
    /\ acts = 0
    /\ speech_seen = FALSE
    /\ turns = 0
    /\ quiet = FALSE

\* Lines 170-196: argument parsing, audio.init, whisper_init, is_running.
Start ==
    /\ pc = "start"
    /\ \E args \in {"ok", "usage"}, audio_ok \in BOOLEAN, model_ok \in BOOLEAN :
         IF args = "usage"
         THEN pc' = "exited" /\ exit_code' = 0 /\ UNCHANGED <<ctx, is_running>>
         ELSE IF ~audio_ok
         THEN pc' = "exited" /\ exit_code' = 1 /\ UNCHANGED <<ctx, is_running>>
         ELSE /\ pc' = "loop"
              /\ ctx' = (IF model_ok THEN "valid" ELSE "null")
              /\ is_running' = TRUE
              /\ UNCHANGED exit_code
    /\ UNCHANGED <<is_active, current_segment, last_speech_time, clock, cycle, out,
                   calls, session_segs, acts, speech_seen, turns, quiet>>

\* Line 268 and the loop condition: poll, and leave through lines 271-272.
Poll(st, quit) ==
    /\ calls' = Append(st.calls, PollEvents)
    /\ is_running' = ~quit
    /\ pc' = (IF quit THEN "exited" ELSE "loop")
    /\ exit_code' = (IF quit THEN 0 ELSE exit_code)

Inputs(kind, segs, now, curl, body) ==
    [kind |-> kind, segs |-> segs, now |-> now, curl |-> curl, body |-> body]

\* A pass with a speech verdict whose transcription succeeds (lines 199-241, 268).
SpeechCycle ==
    /\ pc = "loop" /\ ctx = "valid" /\ ~quiet
    /\ \E d \in Ticks, segs \in Transcripts, quit \in BOOLEAN :
         LET now   == clock + d
             st    == Transcribe(Session(is_active, current_segment), 0, segs)
             heard == IF is_active THEN session_segs \o segs ELSE Heard(FALSE, segs)
         IN  /\ now <= Time0 + MaxElapsed
             /\ Len(st.current_segment) <= MaxUtterance
             /\ Len(heard) <= MaxSessionSegs
             /\ clock' = now
             /\ last_speech_time' = SpeechStamp(is_active, last_speech_time, now)
             /\ is_active' = st.is_active
             /\ current_segment' = st.current_segment
             /\ out' = st.out
             /\ Poll(st, quit)
             /\ cycle' = Inputs("speech", segs, now, "none", <<>>)
             /\ session_segs' = heard
             /\ acts' = acts + Count(st.out, "Activated")
             /\ speech_seen' = TRUE
    /\ UNCHANGED <<ctx, turns, quiet>>

\* A pass with a speech verdict whose transcription fails: continue on line 220
\* goes back to the loop condition without reaching line 268.
FailedCycle ==
    /\ pc = "loop" /\ ctx = "valid" /\ ~quiet
    /\ \E d \in Ticks, segs \in StaleTranscripts, rc \in {1} :
         LET now == clock + d
             st  == Transcribe(Session(is_active, current_segment), rc, segs)
         IN  /\ now <= Time0 + MaxElapsed
             /\ clock' = now
             /\ last_speech_time' = SpeechStamp(is_active, last_speech_time, now)
             /\ is_active' = st.is_active
             /\ current_segment' = st.current_segment
             /\ out' = st.out
             /\ calls' = st.calls
             /\ cycle' = Inputs("failed", <<>>, now, "none", <<>>)
             /\ speech_seen' = TRUE
    /\ UNCHANGED <<pc, exit_code, ctx, is_running, session_segs, acts, turns, quiet>>

\* A pass with a speech verdict when whisper_init returned NULL (line 188 is
\* not checked): whisper_full(NULL, ...) either faults or reports an error.
NullCtxCycle ==
    /\ pc = "loop" /\ ctx = "null" /\ ~quiet
    /\ \E d \in Ticks, outcome \in {"fault", "error"} :
         LET now == clock + d
             st  == Transcribe(Session(is_active, current_segment), 1, <<>>)
         IN  /\ now <= Time0 + MaxElapsed
             /\ clock' = now
             /\ last_speech_time' = SpeechStamp(is_active, last_speech_time, now)
             /\ calls' = st.calls
             /\ cycle' = Inputs(outcome, <<>>, now, "none", <<>>)
             /\ speech_seen' = TRUE
             /\ IF outcome = "fault"
                THEN pc' = "crashed" /\ exit_code' = 139 /\ out' = <<>>
                ELSE out' = st.out /\ UNCHANGED <<pc, exit_code>>
    /\ UNCHANGED <<ctx, is_running, is_active, current_segment, session_segs, acts,
                   turns, quiet>>

\* A pass with a silence verdict (lines 199-203, 242-268).  The service's
\* answer is drawn only when the pass dispatches, and a body only when curl
\* succeeds; cycle.curl is "none" when call_ollama was not called.
SilencePass(ticks, quits, limit) ==
    /\ pc = "loop"
    /\ \E d \in ticks, curl \in CurlOutcomes, body \in Bodies, quit \in quits :
         LET now == clock + d
             fin == ShouldFinalize(is_active, current_segment, last_speech_time, now)
             st  == SilenceBranch(Session(is_active, current_segment),
                                  last_speech_time, now, curl, RenderBody(body))
         IN  /\ now <= limit
             /\ fin \/ (curl = "ok" /\ body = <<>>)
             /\ curl = "ok" \/ body = <<>>
             /\ clock' = now
             /\ is_active' = st.is_active
             /\ current_segment' = st.current_segment
             /\ out' = st.out
             /\ Poll(st, quit)
             /\ cycle' = Inputs("silence", <<>>, now,
                                  IF fin THEN curl ELSE "none", body)
             /\ session_segs' = (IF fin THEN <<>> ELSE session_segs)
             /\ acts' = (IF fin THEN 0 ELSE acts)
             /\ turns' = turns + Count(st.out, "Finalize")
    /\ UNCHANGED <<ctx, last_speech_time, speech_seen, quiet>>

SilenceCycle == ~quiet /\ SilencePass(Ticks, BOOLEAN, Time0 + MaxElapsed)

Next == Start \/ SpeechCycle \/ FailedCycle \/ NullCtxCycle \/ SilenceCycle

Spec == Init /\ [][Next]_vars

(* The loop under an environment that falls silent for good *)

\* From here on every verdict is silence, the clock advances between passes
\* and sdl_poll_events never reports a quit.
GoQuiet ==
    /\ pc = "loop" /\ ~quiet
    /\ quiet' = TRUE
    /\ UNCHANGED <<pc, exit_code, ctx, is_running, is_active, current_segment,
                   last_speech_time, clock, cycle, out, calls, session_segs, acts,
                   speech_seen, turns>>

\* The clock is followed for two more advances past the horizon, enough for
\* the silence threshold to pass whatever the advances are.
QuietLimit == Time0 + MaxElapsed + 2 * (silence_threshold_ms + 1)

QuietPass == quiet /\ SilencePass(Ticks \ {0}, {FALSE}, QuietLimit)

NextLive == Next \/ GoQuiet \/ QuietPass

\* The loop body always runs to its end and the loop goes round again
\* (lines 197-269): a pass that can be taken is taken.
SpecLive == Init /\ [][NextLive]_vars /\ WF_vars(QuietPass)

----------------------------------------------------------------------------
(* Properties *)

Printed(events, ev) == Count(events, ev) > 0

TextsOf(events, ev) == {events[i].text : i \in {k \in 1..Len(events) : events[k].ev = ev}}

MadeIn(cs, fn) == Cardinality({i \in 1..Len(cs) : cs[i].fn = fn})

Prompts(cs) == {cs[i].arg : i \in {k \in 1..Len(cs) : cs[k].fn = "call_ollama"}}

SpeechKinds == {"speech", "failed", "fault", "error"}

\* C1: whenever the session is Dormant (is_active = FALSE), at every pass
\* boundary from the initial state on, current_segment is empty.
C1_DormantUtteranceEmpty == ~is_active => current_segment = <<>>

\* C1 witness: Dormant again after a pass that finalized a non-empty utterance.
C1_Witness ==
    /\ cycle.kind = "silence"
    /\ Printed(out, "Finalize")
    /\ <<>> \notin TextsOf(out, "Finalize")
    /\ ~is_active
    /\ current_segment = <<>>

\* C2: every prompt handed to call_ollama, and every finalized text, is
\* non-empty; and a silence pass that starts Armed with an empty utterance
\* prints no Finalize, dispatches nothing and stays Armed, whatever the clock.
C2_NoFinalizeOnEmpty ==
    [][ /\ <<>> \notin Prompts(calls')
        /\ <<>> \notin TextsOf(out', "Finalize")
        /\ (is_active /\ current_segment = <<>> /\ cycle'.kind = "silence")
             => /\ is_active'
                /\ current_segment' = <<>>
                /\ ~Printed(out', "Finalize")
                /\ MadeIn(calls', "call_ollama") = 0 ]_vars

\* C2 witness: still Armed and empty after a silence pass taken more than
\* silence_threshold_ms after the last speech.
C2_Witness ==
    /\ cycle.kind = "silence"
    /\ is_active
    /\ current_segment = <<>>
    /\ cycle.now - last_speech_time > silence_threshold_ms

\* Phrases the matcher is compared on, besides the configured one.
WakePhrases == {wake_word, <<>>, <<"t">>, <<"e", "s">>, <<"s", "t", "b">>,
                <<"t", "t">>, <<"b", "a">>, T_mid}

\* C3: contains_wake_word(S, W) holds exactly when W is a block of consecutive
\* characters of S, and a pass prints Activated and goes Dormant -> Armed
\* exactly when it starts Dormant, has a speech verdict, transcribes, and
\* some segment of it holds the wake phrase.
C3_WakeWordGating ==
    [][ /\ \A i \in 1..Len(cycle'.segs) : \A w \in WakePhrases :
             contains_wake_word(cycle'.segs[i], w) <=> IsSubstring(w, cycle'.segs[i])
        /\ Printed(out', "Activated")
             <=> /\ ~is_active
                 /\ cycle'.kind = "speech"
                 /\ \E i \in 1..Len(cycle'.segs) : IsSubstring(wake_word, cycle'.segs[i])
        /\ (~is_active /\ is_active') <=> Printed(out', "Activated") ]_vars

\* C3 witness: activated by a segment that holds the wake phrase in its middle.
C3_Witness ==
    /\ cycle.kind = "speech"
    /\ cycle.segs = <<T_mid>>
    /\ is_active
    /\ out = <<Activated>>

\* C4: a speech pass that starts Armed prints no Activated and appends every
\* segment, wake phrase or not; a pass that activates prints Activated once
\* and appends the segments after the activating one, wake phrase or not;
\* and at each Finalize exactly one Activated was printed since the previous
\* Finalize (or since the start).
C4_NoRetriggerWhileArmed ==
    [][ /\ (is_active /\ cycle'.kind = "speech")
             => /\ ~Printed(out', "Activated")
                /\ is_active'
                /\ current_segment' = current_segment \o Flatten(cycle'.segs)
                /\ out' = [i \in 1..Len(cycle'.segs) |-> PartialText(cycle'.segs[i])]
        /\ Count(out', "Activated") <= 1
        /\ (~is_active /\ Printed(out', "Activated"))
             => current_segment' =
                  Flatten(SubSeq(cycle'.segs, FirstMatch(cycle'.segs) + 1, Len(cycle'.segs)))
        /\ Printed(out', "Finalize") => (acts = 1 /\ acts' = 0) ]_vars

\* C4 witness: an Armed session transcribes the wake phrase in a later pass
\* and it is appended as text.
C4_Witness ==
    /\ cycle.kind = "speech"
    /\ cycle.segs = <<T_wake>>
    /\ is_active
    /\ out = <<PartialText(T_wake)>>
    /\ current_segment = T_a \o T_wake
    /\ acts = 1

\* C5: a silence pass that starts Armed with a non-empty utterance finalizes
\* (prints Finalize with the utterance, goes Dormant) exactly when
\* now - last_speech_time > silence_threshold_ms.
C5_SilenceThreshold ==
    [][ (is_active /\ current_segment # <<>> /\ cycle'.kind = "silence")
          => /\ Printed(out', "Finalize")
                  <=> (cycle'.now - last_speech_time) > silence_threshold_ms
             /\ Printed(out', "Finalize") <=> ~is_active'
             /\ Printed(out', "Finalize") => TextsOf(out', "Finalize") = {current_segment}
             /\ ~Printed(out', "Finalize") => current_segment' = current_segment ]_vars

\* C5 witness: finalized at exactly last_speech_time + silence_threshold_ms + 1.
C5_Witness ==
    /\ cycle.kind = "silence"
    /\ Printed(out, "Finalize")
    /\ cycle.now = last_speech_time + silence_threshold_ms + 1

\* C6: Armed -> Dormant happens only in a pass that prints Finalize and calls
\* call_ollama once with the utterance, and it happens in every such pass:
\* the utterance is cleared and the session is Dormant whether curl succeeded
\* or not, a failed call gives the empty reply, and a pass that starts
\* Dormant never dispatches (nothing is retried).
C6_ResetDespiteDispatchFailure ==
    [][ /\ (is_active /\ ~is_active') => Printed(out', "Finalize")
        /\ Printed(out', "Finalize")
             => /\ is_active /\ ~is_active'
                /\ current_segment' = <<>>
                /\ MadeIn(calls', "call_ollama") = 1
                /\ Prompts(calls') = {current_segment}
                /\ Count(out', "Reply") = 1
        /\ MadeIn(calls', "call_ollama") = Count(out', "Finalize")
        /\ cycle'.curl \in {"failed", "no_handle"}
             => (Printed(out', "Finalize") /\ TextsOf(out', "Reply") = {<<>>})
        /\ ~is_active => MadeIn(calls', "call_ollama") = 0 ]_vars

\* C6 witness: Dormant with a cleared utterance after a pass whose
\* curl_easy_perform failed.
C6_Witness ==
    /\ cycle.kind = "silence"
    /\ cycle.curl = "failed"
    /\ Printed(out, "Finalize")
    /\ ~is_active
    /\ current_segment = <<>>

\* C7: while Armed, current_segment is the concatenation, in arrival order,
\* of the segments transcribed since activation, and the text finalized and
\* dispatched is that concatenation.
C7_SegmentOrderPreserved ==
    [][ /\ is_active' => current_segment' = Flatten(session_segs')
        /\ Printed(out', "Finalize")
             => /\ TextsOf(out', "Finalize") = {Flatten(session_segs)}
                /\ Prompts(calls') = {Flatten(session_segs)} ]_vars

\* C7 witness: two different non-empty segments have arrived, in this order.
C7_Witness ==
    /\ is_active
    /\ session_segs = <<T_a, T_tes>>
    /\ current_segment = <<"a", "t", "e", "s">>

\* C8 as stated: last_speech_time is set (non-zero) exactly when the session
\* is Armed (the verdict of the activating pass counted as one since
\* activation).
C8_DefinedIffArmed == (last_speech_time # 0) <=> is_active

\* C8 amended: last_speech_time is set exactly when some pass since start-up
\* had a speech verdict; every speech verdict, Dormant or Armed, sets it to
\* that pass's time; a silence pass, finalizing or not, leaves it as it is;
\* hence it is set whenever the session is Armed.
C8_StampedBySpeechInAnyState ==
    [][ /\ cycle'.kind \in SpeechKinds => last_speech_time' = cycle'.now
        /\ cycle'.kind \notin SpeechKinds => last_speech_time' = last_speech_time
        /\ (last_speech_time' # 0) <=> speech_seen'
        /\ is_active' => last_speech_time' # 0 ]_vars

\* C8 witness: Dormant after a Finalize, with last_speech_time still set.
C8_Witness ==
    /\ cycle.kind = "silence"
    /\ Printed(out, "Finalize")
    /\ ~is_active
    /\ last_speech_time # 0

\* C9 as stated: a pass whose transcription fails leaves is_active,
\* current_segment and last_speech_time as they were, and the loop goes on.
C9_FailedPassChangesNothing ==
    [][ cycle'.kind \in {"failed", "error"}
          => /\ is_active' = is_active
             /\ current_segment' = current_segment
             /\ last_speech_time' = last_speech_time
             /\ pc' = "loop" /\ is_running' ]_vars

\* C9 amended: a pass whose transcription fails leaves is_active and
\* current_segment as they were and the loop goes on, while last_speech_time
\* becomes the time of that pass (the speech verdict precedes transcription).
C9_FailedPassKeepsSessionButStamps ==
    [][ cycle'.kind \in {"failed", "error"}
          => /\ is_active' = is_active
             /\ current_segment' = current_segment
             /\ last_speech_time' = cycle'.now
             /\ out' = <<Failed>>
             /\ pc' = "loop" /\ is_running' ]_vars

\* C9 witness: an Armed session with text after a failed pass.
C9_Witness ==
    /\ cycle.kind = "failed"
    /\ is_active
    /\ current_segment # <<>>
    /\ last_speech_time = cycle.now
    /\ pc = "loop"

\* The text the "response" string fields of a body carry, in line order.
RECURSIVE ExpectedReply(_)
ExpectedReply(body) ==
    IF body = <<>> THEN <<>>
    ELSE (IF Head(body).kind \in {"fragment", "full"} THEN Head(body).val ELSE <<>>)
             \o ExpectedReply(Tail(body))

\* C10: when curl succeeds, the reply is the concatenation, in line order,
\* of the "response" string values of the body's lines; lines without one
\* add nothing.
C10_ReplyConcatenatesFragments ==
    (cycle.kind = "silence" /\ cycle.curl = "ok")
        => TextsOf(out, "Reply") = {ExpectedReply(cycle.body)}

\* C11: every pass of the loop calls sdl_poll_events exactly once, as its last
\* call, a pass whose transcription fails included; and a process that left
\* the loop through the poll returned 0.
C11_PollOncePerPass ==
    /\ (ctx = "valid" /\ cycle.kind # "none")
         => /\ MadeIn(calls, "sdl_poll_events") = 1
            /\ calls[Len(calls)] = PollEvents
    /\ (pc = "exited" /\ cycle.kind # "none") => (exit_code = 0 /\ ~is_running)

\* C12: when whisper_init returned NULL, or audio.init failed, main has
\* returned a non-zero code and no pass of the loop was made.
C12_StartupFailureAborts ==
    /\ ctx = "null" => (pc = "exited" /\ exit_code > 0 /\ calls = <<>>)
    /\ (pc = "exited" /\ exit_code = 1) => (cycle.kind = "none" /\ calls = <<>>)

\* C13: the pass that prints Finalize leaves the utterance empty and the
\* session Dormant, and a silence pass that starts Dormant, at any clock value,
\* is a no-op: it prints nothing, does not call call_ollama and leaves the
\* session Dormant, the utterance empty and last_speech_time as it was.
C13_IdempotentClear ==
    [][ /\ Printed(out', "Finalize") => (~is_active' /\ current_segment' = <<>>)
        /\ (~is_active /\ cycle'.kind = "silence")
             => /\ out' = <<>>
                /\ MadeIn(calls', "call_ollama") = 0
                /\ ~is_active'
                /\ current_segment' = <<>>
                /\ last_speech_time' = last_speech_time
                /\ turns' = turns ]_vars

\* C13 witness: a silence pass after an utterance was finalized, taken long
\* after the last speech, that did nothing.
C13_Witness ==
    /\ cycle.kind = "silence"
    /\ turns = 1
    /\ out = <<>>
    /\ ~is_active
    /\ current_segment = <<>>
    /\ cycle.now - last_speech_time > silence_threshold_ms

\* C14: a pass calls audio.get exactly once, whisper_full at most once and
\* call_ollama at most once, never both of the last two; and a dispatch ends
\* the session it belongs to (one activation before it, none after, Dormant,
\* utterance cleared), so no utterance is dispatched twice.
C14_OneFetchOneCallPerPass ==
    [][ /\ cycle'.kind # "none"
             => /\ MadeIn(calls', "audio.get") = 1
                /\ calls'[1] = AudioGet
                /\ MadeIn(calls', "whisper_full") + MadeIn(calls', "call_ollama") <= 1
        /\ MadeIn(calls', "whisper_full") = 1 <=> cycle'.kind \in SpeechKinds
        /\ MadeIn(calls', "call_ollama") = 1
             => /\ acts = 1 /\ acts' = 0
                /\ turns' = turns + 1
                /\ ~is_active' /\ current_segment' = <<>> ]_vars

\* C14 witness: a pass that fetched, took the verdict, dispatched once and
\* polled.
C14_Witness ==
    /\ cycle.kind = "silence"
    /\ Len(calls) = 4
    /\ calls[1] = AudioGet
    /\ calls[3].fn = "call_ollama"
    /\ calls[4] = PollEvents
    /\ turns = 1

\* C15: Finalize is printed, and call_ollama called, only in a pass with a
\* silence verdict; a pass with a speech verdict that starts Armed ends Armed
\* with the utterance kept (and extended), however long the utterance is and
\* however late the clock.
C15_SilenceOnlyFinalizes ==
    [][ /\ (Printed(out', "Finalize") \/ MadeIn(calls', "call_ollama") > 0)
             => cycle'.kind = "silence"
        /\ (is_active /\ cycle'.kind \in SpeechKinds)
             => /\ is_active'
                /\ Len(current_segment') >= Len(current_segment)
                /\ SubSeq(current_segment', 1, Len(current_segment)) = current_segment
                /\ turns' = turns ]_vars

\* C15 witness: an Armed session, not activated in this pass, still Armed
\* with its text after a speech pass taken more than silence_threshold_ms
\* after the loop started.
C15_Witness ==
    /\ cycle.kind = "speech"
    /\ is_active
    /\ ~Printed(out, "Activated")
    /\ Len(current_segment) >= 4
    /\ turns = 0
    /\ cycle.now > Time0 + silence_threshold_ms

\* C16: in a pass that activates, no PartialText is printed for the
\* activating segment or for a segment before it: Activated comes first in
\* the output and is followed by one PartialText per later segment; when the
\* activating segment is the last one the utterance is empty.
C16_TriggerSegmentDiscarded ==
    [][ (~is_active /\ cycle'.kind = "speech" /\ FirstMatch(cycle'.segs) > 0)
          => LET segs == cycle'.segs
                 k    == FirstMatch(segs)
             IN  /\ is_active'
                 /\ out'[1] = Activated
                 /\ Len(out') = 1 + Len(segs) - k
                 /\ \A i \in 2..Len(out') : out'[i] = PartialText(segs[k + i - 1])
                 /\ Len(current_segment') + Len(Flatten(SubSeq(segs, 1, k)))
                      = Len(Flatten(segs))
                 /\ k = Len(segs) => current_segment' = <<>> ]_vars

\* C16 witness: a Dormant pass transcribed a text and then the wake phrase;
\* the session is Armed and the utterance empty.
C16_Witness ==
    /\ cycle.kind = "speech"
    /\ cycle.segs = <<T_a, T_wake>>
    /\ is_active
    /\ current_segment = <<>>
    /\ out = <<Activated>>

\* C17: after a pass that starts Dormant and whose first segment holding the
\* wake phrase is the k-th, the utterance is the concatenation of the
\* segments after the k-th, in order; it is empty exactly when all of those
\* are empty; and Activated is printed once even when a later segment holds
\* the wake phrase again.
C17_ActivationMidPass ==
    [][ (~is_active /\ cycle'.kind = "speech" /\ FirstMatch(cycle'.segs) > 0)
          => LET segs  == cycle'.segs
                 k     == FirstMatch(segs)
                 later == SubSeq(segs, k + 1, Len(segs))
             IN  /\ current_segment' = Flatten(later)
                 /\ current_segment' = <<>> <=> \A i \in 1..Len(later) : later[i] = <<>>
                 /\ Count(out', "Activated") = 1
                 /\ Count(out', "PartialText") = Len(later) ]_vars

\* C17 witness: the wake phrase was the second of three segments and the
\* utterance is the third.
C17_Witness ==
    /\ cycle.kind = "speech"
    /\ cycle.segs = <<T_a, T_wake, T_tes>>
    /\ is_active
    /\ current_segment = T_tes
    /\ acts = 1

\* C18: the pass that activates stamps last_speech_time with its own clock
\* reading; while the session stays Armed the stamp changes only to the
\* clock reading of a later speech pass; so whenever the session is Armed the
\* stamp is not 0, not older than the activation and not ahead of the clock,
\* and the elapsed time compared on line 248 is not negative.
C18_StampBelongsToSession ==
    [][ /\ (~is_active /\ is_active')
             => (last_speech_time' = cycle'.now /\ cycle'.now >= clock)
        /\ (is_active /\ is_active')
             => /\ last_speech_time' >= last_speech_time
                /\ last_speech_time' # last_speech_time
                     => (cycle'.kind \in SpeechKinds /\ last_speech_time' = cycle'.now)
        /\ is_active' => (last_speech_time' # 0 /\ last_speech_time' <= clock')
        /\ (is_active /\ cycle'.kind = "silence")
             => cycle'.now - last_speech_time >= 0 ]_vars

\* C18 witness: a second session, Armed, after a silence pass taken later than
\* its stamp.
C18_Witness ==
    /\ cycle.kind = "silence"
    /\ turns = 1
    /\ is_active
    /\ last_speech_time >= Time0 + silence_threshold_ms + 1
    /\ cycle.now > last_speech_time

\* C19: Activated and Finalize alternate, Activated first: Activated is
\* printed only when none is open, Finalize only when one is, never both in
\* one pass; an utterance starts from nothing at activation, whatever came
\* before; and the prompt dispatched at Finalize is the concatenation of the
\* segments received since the latest Activated.
C19_NoCarryOverBetweenSessions ==
    [][ /\ Printed(out', "Activated")
             => (acts = 0 /\ acts' = 1 /\ ~Printed(out', "Finalize"))
        /\ Printed(out', "Finalize")
             => /\ acts = 1 /\ acts' = 0
                /\ Prompts(calls') = {Flatten(session_segs)}
                /\ Count(out', "Finalize") = 1
        /\ acts' \in {0, 1}
        /\ (acts' = 1) <=> is_active'
        /\ (~is_active /\ is_active')
             => current_segment' = Flatten(Heard(FALSE, cycle'.segs)) ]_vars

\* C19 witness: the second utterance is finalized, and it is the one text
\* received in the second session.
C19_Witness ==
    /\ cycle.kind = "silence"
    /\ turns = 2
    /\ TextsOf(out, "Finalize") = {T_a}
    /\ Prompts(calls) = {T_a}
    /\ ~is_active

\* C20: once every verdict is silence, the clock advances between passes and
\* no quit is signalled, a session that is Armed with a non-empty utterance
\* is eventually finalized: the pass that does it is the first silence pass
\* whose clock reading exceeds last_speech_time + silence_threshold_ms, it
\* dispatches the utterance once and leaves the session Dormant; a session
\* Armed with an empty utterance stays Armed with an empty utterance.
C20_QuietSessionFinalizes ==
    /\ (quiet /\ pc = "loop" /\ is_active /\ current_segment # <<>>)
         ~> (/\ Printed(out, "Finalize")
             /\ ~is_active
             /\ current_segment = <<>>
             /\ MadeIn(calls, "call_ollama") = 1)
    /\ [][ (quiet /\ is_active /\ current_segment # <<>> /\ cycle'.kind = "silence")
             => IF cycle'.now - last_speech_time > silence_threshold_ms
                THEN /\ Count(out', "Finalize") = 1
                     /\ TextsOf(out', "Finalize") = {current_segment}
                     /\ Prompts(calls') = {current_segment}
                     /\ MadeIn(calls', "call_ollama") = 1
                     /\ ~is_active'
                ELSE /\ ~Printed(out', "Finalize")
                     /\ MadeIn(calls', "call_ollama") = 0
                     /\ is_active'
                     /\ current_segment' = current_segment ]_vars
    /\ [][ (quiet /\ is_active /\ current_segment = <<>>)
             => (/\ is_active' /\ current_segment' = <<>>
                 /\ ~Printed(out', "Finalize")
                 /\ MadeIn(calls', "call_ollama") = 0) ]_vars

\* C20 witness: after the environment fell silent with the session Armed, a
\* first quiet pass came too early and a later one finalized.
C20_Witness ==
    /\ quiet
    /\ cycle.kind = "silence"
    /\ Printed(out, "Finalize")
    /\ ~is_active
    /\ cycle.now - last_speech_time > silence_threshold_ms + 999
    /\ cycle.now > Time0 + MaxElapsed

====
